---- MODULE Spec2Model ----
(***************************************************************************)
(* Reservation lifecycle and double-booking guard of sabores_lusitanos:    *)
(* the Mongoose Reservation model (src/models/Reservation.js) and the      *)
(* /api/reservations routes (src/routes/users.js, second half).            *)
(*                                                                         *)
(* Every route handler is an async function: its awaits on the store are   *)
(* the points where another request may run.  A handler is therefore one   *)
(* action up to the store write it awaits last, and one action for that    *)
(* write.  A specification with a single request process gives the         *)
(* handlers run one after another.                                         *)
(***************************************************************************)
EXTENDS Integers, Sequences, FiniteSets, TLC

VARIABLES
    reservations,   \* the reservations collection: a sequence of documents, _id = index
    now,            \* the clock read by new Date()
    pc,             \* per request process: idle, or the handler's pending store write
    response,       \* the last HTTP response sent
    rows,           \* the reservations table of the SQLite database: id = index
    reviews,        \* the reviews collection: a sequence of documents, _id = index
    rating,         \* the rating field of each restaurant document
    stories,        \* the stories collection: a sequence of documents, _id = index
    connection,     \* mongoose.connection with its listeners, and the pending timers
    dispatched      \* the last request an Express router dispatched, with its route

vars == <<reservations, now, pc, response, rows, reviews, rating, stories, connection,
          dispatched>>

\* the variables the handlers of the reservation routes never touch
exceptReservations == <<rows, reviews, rating, stories, connection, dispatched>>

---------------------------------------------------------------------------
(* Bounds of the model *)

MaxRes == 2          \* documents the collection may hold
MaxNow == 1          \* last value of the clock
MaxDay == 1          \* last calendar day a request may name
TicksPerDay == 2     \* clock instants in one calendar day
MaxDraw == 1         \* outcomes of the random source, 0..MaxDraw
NumProcs == 2        \* requests that may be in progress at once
LifeMaxRes == 1      \* documents the collection may hold in LifeSpec
MaxListeners == 8    \* 'disconnected' listeners the connection may carry
MaxTimers == 12      \* reconnection timers that may be pending at once

---------------------------------------------------------------------------
(* Values *)

NoDate == -1         \* an unset Date field
NoCode == <<>>       \* an unset confirmationCode
NoData == <<>>       \* a response without a data member
Absent == "absent"   \* a member the request body does not have
AbsentDate == [day |-> -1, tod |-> 0]   \* a request body without date

Statuses == {"pending", "confirmed", "cancelled", "completed", "no_show"}

ActiveStatuses == {"pending", "confirmed"}

DefaultReason == "Cancelada pelo utilizador"

Idle == [op |-> "idle"]

(* The users collection: _id -> role (fixture; the reservation routes never write it). *)
UserRole(u) ==
    CASE u = "u1" -> "user"
      [] u = "u2" -> "user"
      [] u = "o1" -> "restaurant_owner"
      [] u = "o2" -> "restaurant_owner"
      [] u = "a1" -> "admin"

(* The restaurants collection (fixture): r1 and r2 accept reservations, r3 does not. *)
RestaurantIds == {"r1", "r2", "r3"}

RestaurantOwner(rid) ==
    CASE rid = "r1" -> "o1"
      [] rid = "r2" -> "o2"
      [] rid = "r3" -> "o1"

AcceptsReservations(rid) == rid \in {"r1", "r2"}

---------------------------------------------------------------------------
(* Pure functions of the code *)

\* new Date(date) of an ISO-8601 string naming a calendar day and a time of day
ParseDate(iso) == iso.day * TicksPerDay + iso.tod

CodeLen == 6

chars ==
    << "A", "B", "C", "D", "E", "F", "G", "H", "I", "J", "K", "L", "M",
       "N", "O", "P", "Q", "R", "S", "T", "U", "V", "W", "X", "Y", "Z",
       "0", "1", "2", "3", "4", "5", "6", "7", "8", "9" >>

\* chars.charAt(i), i counted from 0
charAt(i) == chars[i + 1]

\* the for loop of generateConfirmationCode; draws[i+1] is the i-th value of
\* Math.floor(Math.random() * chars.length)
RECURSIVE GenLoop(_, _, _)
GenLoop(i, result, draws) ==
    IF i < CodeLen
    THEN GenLoop(i + 1, Append(result, charAt(draws[i + 1])), draws)
    ELSE result

\* faulty variant: the loop stops one character early
generateConfirmationCodeShort(draws) == SubSeq(GenLoop(0, <<>>, draws), 1, CodeLen - 1)

generateConfirmationCode(draws) == GenLoop(0, <<>>, draws)

\* the schema defaults applied by Reservation.create
NewReservation(user, restaurant, date, time) ==
    [ user |-> user, restaurant |-> restaurant, date |-> date, time |-> time,
      status |-> "pending", confirmationCode |-> NoCode,
      confirmedAt |-> NoDate, cancelledAt |-> NoDate,
      cancelledBy |-> Absent, cancellationReason |-> Absent,
      isActive |-> TRUE ]

\* reservationSchema.pre('save')
PreSave(doc, draws) ==
    IF doc.confirmationCode = NoCode
    THEN [doc EXCEPT !.confirmationCode = generateConfirmationCode(draws)]
    ELSE doc

\* reservationSchema.methods: what each does to the document in memory
confirm(doc, t) == [doc EXCEPT !.status = "confirmed", !.confirmedAt = t]

cancel(doc, reason, cancelledBy, t) ==
    [doc EXCEPT !.status = "cancelled", !.cancelledAt = t,
                !.cancellationReason = reason, !.cancelledBy = cancelledBy]

complete(doc) == [doc EXCEPT !.status = "completed"]

markNoShow(doc) == [doc EXCEPT !.status = "no_show"]

\* the paths each method marks modified, which save() then writes
ModifiedPaths(op) ==
    CASE op = "confirm"  -> {"status", "confirmedAt"}
      [] op = "cancel"   -> {"status", "cancelledAt", "cancellationReason", "cancelledBy"}
      [] op = "complete" -> {"status"}
      [] op = "no_show"  -> {"status"}

\* the stored document after doc.save(): save() writes the modified paths only
Saved(stored, doc, paths) ==
    [f \in DOMAIN stored |-> IF f \in paths THEN doc[f] ELSE stored[f]]

\* faulty variant: the index on confirmationCode is not unique
CodeInUseNever(code, except) == FALSE

\* the unique index on confirmationCode
CodeInUse(code, except) ==
    \E i \in DOMAIN reservations : i # except /\ reservations[i].confirmationCode = code

\* faulty variant: the query matches pending reservations only
existingReservationPendingOnly(rid, date, time) ==
    \E i \in DOMAIN reservations :
        /\ reservations[i].restaurant = rid
        /\ reservations[i].date = date
        /\ reservations[i].time = time
        /\ reservations[i].status = "pending"

\* Reservation.findOne({restaurant, date, time, status: {$in: ['pending','confirmed']}})
existingReservation(rid, date, time) ==
    \E i \in DOMAIN reservations :
        /\ reservations[i].restaurant = rid
        /\ reservations[i].date = date
        /\ reservations[i].time = time
        /\ reservations[i].status \in {"pending", "confirmed"}

\* middleware restaurantOwner (middleware/auth.js): restaurant owners and admins pass
restaurantOwner(u) == UserRole(u) \in {"restaurant_owner", "admin"}

\* faulty variant: the check of the restaurant's owner is missing
AccessDeniedUsersOnly(u, doc) == UserRole(u) = "user" /\ doc.user # u

\* "Check access permissions" of GET/PUT /:id and PUT /:id/cancel
AccessDenied(u, doc) ==
    \/ UserRole(u) = "user" /\ doc.user # u
    \/ UserRole(u) = "restaurant_owner"
         /\ (doc.restaurant \notin RestaurantIds \/ RestaurantOwner(doc.restaurant) # u)

\* "Check if user owns the restaurant" of confirm, complete and no-show
NotRestaurantOwner(u, doc) ==
    doc.restaurant \notin RestaurantIds \/ RestaurantOwner(doc.restaurant) # u

\* req.user.role === 'user' ? 'user' : 'restaurant'
CancelledBy(u) == IF UserRole(u) = "user" THEN "user" ELSE "restaurant"

\* req.body.reason || 'Cancelada pelo utilizador'
ReasonOf(reason) == IF reason = Absent THEN DefaultReason ELSE reason

---------------------------------------------------------------------------
(* The state after construction: an empty collection, no request running *)

Respond(op, status, message, data) ==
    response' = [op |-> op, status |-> status, message |-> message, data |-> data]

Procs == 1..NumProcs

\* restaurantSchema.rating: average (kept in tenths) and count, both default 0
Unrated == [average |-> 0, count |-> 0]

\* mongoose.connection before connectDBAtlas is called
NotConnected == [readyState |-> "disconnected", listeners |-> 0, timers |-> 0]

\* no request dispatched yet
NoRequest == [router |-> "none", method |-> "none", path |-> <<>>, route |-> 0]

Init ==
    /\ reservations = <<>>
    /\ now = 0
    /\ pc = [p \in Procs |-> Idle]
    /\ response = [op |-> "none", status |-> 0, message |-> "none", data |-> NoData]
    /\ rows = <<>>
    /\ reviews = <<>>
    /\ rating = [rid \in RestaurantIds |-> Unrated]
    /\ stories = <<>>
    /\ connection = NotConnected
    /\ dispatched = NoRequest

---------------------------------------------------------------------------
(* POST /api/reservations *)

\* faulty variant: a date equal to the current time is accepted
CreateOutcomeStrictlyPast(rid, iso, time) ==
    LET reservationDate == ParseDate(iso) IN
    IF reservationDate < now THEN "date_not_future"
    ELSE IF rid \notin RestaurantIds THEN "restaurant_not_found"
    ELSE IF ~AcceptsReservations(rid) THEN "no_reservations"
    ELSE IF existingReservation(rid, reservationDate, time) THEN "slot_taken"
    ELSE "ok"

\* faulty variant: features.acceptsReservations is not looked at
CreateOutcomeNoPolicyCheck(rid, iso, time) ==
    LET reservationDate == ParseDate(iso) IN
    IF reservationDate <= now THEN "date_not_future"
    ELSE IF rid \notin RestaurantIds THEN "restaurant_not_found"
    ELSE IF existingReservation(rid, reservationDate, time) THEN "slot_taken"
    ELSE "ok"

\* the handler up to the double-booking query; "ok" means it goes on to create
CreateOutcome(rid, iso, time) ==
    LET reservationDate == ParseDate(iso) IN
    IF reservationDate <= now THEN "date_not_future"
    ELSE IF rid \notin RestaurantIds THEN "restaurant_not_found"
    ELSE IF ~AcceptsReservations(rid) THEN "no_reservations"
    ELSE IF existingReservation(rid, reservationDate, time) THEN "slot_taken"
    ELSE "ok"

CreateStatus(outcome) == IF outcome = "restaurant_not_found" THEN 404 ELSE 400

\* documents stored or about to be inserted: the bound on the collection
Room(maxRes) ==
    Len(reservations) + Cardinality({q \in Procs : pc[q].op = "create"}) < maxRes

CreateReservation(p, u, rid, iso, time, maxRes) ==
    LET outcome == CreateOutcome(rid, iso, time) IN
    /\ pc[p] = Idle
    /\ outcome = "ok" => Room(maxRes)
    /\ IF outcome = "ok"
       THEN /\ pc' = [pc EXCEPT ![p] =
                      [op |-> "create",
                       doc |-> NewReservation(u, rid, ParseDate(iso), time)]]
            /\ UNCHANGED response
       ELSE /\ Respond("create", CreateStatus(outcome), outcome, NoData)
            /\ UNCHANGED pc
    /\ UNCHANGED <<reservations, now>>
    /\ UNCHANGED exceptReservations

\* Reservation.create: the pre-save hook, the insert under the unique index on
\* confirmationCode, and the response (201, or 500 from the catch block)
CreateInsert(p, draws) ==
    /\ pc[p].op = "create"
    /\ LET doc == PreSave(pc[p].doc, draws) IN
       IF CodeInUse(doc.confirmationCode, 0)
       THEN /\ Respond("create", 500, "server_error", NoData)
            /\ UNCHANGED reservations
       ELSE /\ reservations' = Append(reservations, doc)
            /\ Respond("create", 201, "created", <<doc>>)
    /\ pc' = [pc EXCEPT ![p] = Idle]
    /\ UNCHANGED now
    /\ UNCHANGED exceptReservations

---------------------------------------------------------------------------
(* PUT /api/reservations/:id/confirm, /complete, /no-show, /cancel *)

\* faulty variant: the handlers lack the check for a cancelled reservation
ManageOutcomeNoCancelledGuard(op, u, id) ==
    IF ~restaurantOwner(u) THEN "forbidden_role"
    ELSE IF id \notin DOMAIN reservations THEN "not_found"
    ELSE IF NotRestaurantOwner(u, reservations[id]) THEN "not_authorized"
    ELSE IF op = "confirm" /\ reservations[id].status = "confirmed" THEN "already_confirmed"
    ELSE IF op = "complete" /\ reservations[id].status = "completed" THEN "already_completed"
    ELSE IF op = "no_show" /\ reservations[id].status = "no_show" THEN "already_no_show"
    ELSE "ok"

\* faulty variant: cancel lacks the check for a completed reservation
CancelOutcomeNoCompletedGuard(u, id) ==
    IF id \notin DOMAIN reservations THEN "not_found"
    ELSE IF AccessDenied(u, reservations[id]) THEN "not_authorized"
    ELSE IF reservations[id].status = "cancelled" THEN "already_cancelled"
    ELSE "ok"

\* the handler of confirm, complete or no-show up to the method call
ManageOutcome(op, u, id) ==
    IF ~restaurantOwner(u) THEN "forbidden_role"
    ELSE IF id \notin DOMAIN reservations THEN "not_found"
    ELSE IF NotRestaurantOwner(u, reservations[id]) THEN "not_authorized"
    ELSE IF op = "confirm" /\ reservations[id].status = "confirmed" THEN "already_confirmed"
    ELSE IF op = "complete" /\ reservations[id].status = "completed" THEN "already_completed"
    ELSE IF op = "no_show" /\ reservations[id].status = "no_show" THEN "already_no_show"
    ELSE IF reservations[id].status = "cancelled" THEN "is_cancelled"
    ELSE "ok"

\* the handler of cancel up to the method call
CancelOutcome(u, id) ==
    IF id \notin DOMAIN reservations THEN "not_found"
    ELSE IF AccessDenied(u, reservations[id]) THEN "not_authorized"
    ELSE IF reservations[id].status = "cancelled" THEN "already_cancelled"
    ELSE IF reservations[id].status = "completed" THEN "is_completed"
    ELSE "ok"

ErrorStatus(outcome) ==
    CASE outcome = "not_found" -> 404
      [] outcome \in {"not_authorized", "forbidden_role"} -> 403
      [] OTHER -> 400

\* the method applied to the document read by findById
Method(op, doc, reason, by, t) ==
    CASE op = "confirm"  -> confirm(doc, t)
      [] op = "cancel"   -> cancel(doc, reason, by, t)
      [] op = "complete" -> complete(doc)
      [] op = "no_show"  -> markNoShow(doc)

Begin(p, op, outcome, id, reason, by) ==
    /\ pc[p] = Idle
    /\ IF outcome = "ok"
       THEN /\ pc' = [pc EXCEPT ![p] =
                      [op |-> op, id |-> id,
                       doc |-> Method(op, reservations[id], reason, by, now)]]
            /\ UNCHANGED response
       ELSE /\ Respond(op, ErrorStatus(outcome), outcome, NoData)
            /\ UNCHANGED pc
    /\ UNCHANGED <<reservations, now>>
    /\ UNCHANGED exceptReservations

ConfirmReservation(p, u, id) ==
    Begin(p, "confirm", ManageOutcome("confirm", u, id), id, Absent, Absent)

CompleteReservation(p, u, id) ==
    Begin(p, "complete", ManageOutcome("complete", u, id), id, Absent, Absent)

NoShowReservation(p, u, id) ==
    Begin(p, "no_show", ManageOutcome("no_show", u, id), id, Absent, Absent)

CancelReservation(p, u, id, reason) ==
    Begin(p, "cancel", CancelOutcome(u, id), id, ReasonOf(reason), CancelledBy(u))

\* this.save() of the method, and the handler's 200 response
SaveReservation(p, draws) ==
    /\ pc[p].op \in {"confirm", "cancel", "complete", "no_show"}
    /\ LET id == pc[p].id
           doc == PreSave(pc[p].doc, draws)
       IN  reservations' =
              [reservations EXCEPT ![id] = Saved(@, doc, ModifiedPaths(pc[p].op))]
    /\ Respond(pc[p].op, 200, "ok", NoData)
    /\ pc' = [pc EXCEPT ![p] = Idle]
    /\ UNCHANGED now
    /\ UNCHANGED exceptReservations

---------------------------------------------------------------------------
(* PUT /api/reservations/:id *)

\* the handler up to findByIdAndUpdate
UpdateOutcome(u, id, body) ==
    IF id \notin DOMAIN reservations THEN "not_found"
    ELSE IF AccessDenied(u, reservations[id]) THEN "not_authorized"
    ELSE IF body.date # AbsentDate /\ ParseDate(body.date) <= now THEN "date_not_future"
    ELSE "ok"

UpdateReservation(p, u, id, body) ==
    LET outcome == UpdateOutcome(u, id, body) IN
    /\ pc[p] = Idle
    /\ IF outcome = "ok"
       THEN /\ pc' = [pc EXCEPT ![p] = [op |-> "update", id |-> id, body |-> body]]
            /\ UNCHANGED response
       ELSE /\ Respond("update", ErrorStatus(outcome), outcome, NoData)
            /\ UNCHANGED pc
    /\ UNCHANGED <<reservations, now>>
    /\ UNCHANGED exceptReservations

\* the paths of the schema whose type is Date
DatePaths == {"date", "confirmedAt", "cancelledAt"}

\* req.body has the member f
InBody(body, f) ==
    /\ f \in DOMAIN body
    /\ CASE f = "date" -> body.date # AbsentDate
         [] f \in {"time", "status"} -> body[f] # Absent
         [] OTHER -> TRUE

\* the $set that findByIdAndUpdate(id, req.body) performs: every member of the
\* body that is a path of the schema is written, a date cast to a Date
ApplyBody(doc, body) ==
    [f \in DOMAIN doc |->
        IF ~InBody(body, f) THEN doc[f]
        ELSE IF f \in DatePaths THEN ParseDate(body[f])
        ELSE body[f]]

\* findByIdAndUpdate under the unique index on confirmationCode, and the
\* response (200 with the new document, or 500 from the catch block)
UpdateWrite(p) ==
    /\ pc[p].op = "update"
    /\ LET id == pc[p].id
           doc == ApplyBody(reservations[id], pc[p].body)
       IN  IF CodeInUse(doc.confirmationCode, id)
           THEN /\ Respond("update", 500, "server_error", NoData)
                /\ UNCHANGED reservations
           ELSE /\ reservations' = [reservations EXCEPT ![id] = doc]
                /\ Respond("update", 200, "ok", <<doc>>)
    /\ pc' = [pc EXCEPT ![p] = Idle]
    /\ UNCHANGED now
    /\ UNCHANGED exceptReservations

---------------------------------------------------------------------------
(* GET /api/reservations/confirm/:code *)

\* Reservation.findOne({confirmationCode: code, isActive: true}) on a collection:
\* the first matching document, as the response's data
\* faulty variant: the query lacks isActive: true
FindByCodeAnyDoc(store, code) ==
    LET found == {i \in DOMAIN store : store[i].confirmationCode = code}
    IN  IF found = {} THEN NoData
        ELSE <<store[CHOOSE i \in found : \A j \in found : i <= j]>>

FindByCode(store, code) ==
    LET found == {i \in DOMAIN store :
                     store[i].confirmationCode = code /\ store[i].isActive}
    IN  IF found = {} THEN NoData
        ELSE <<store[CHOOSE i \in found : \A j \in found : i <= j]>>

GetReservationByCode(p, code) ==
    LET found == FindByCode(reservations, code) IN
    /\ pc[p] = Idle
    /\ IF found = NoData
       THEN Respond("lookup", 404, "not_found", NoData)
       ELSE Respond("lookup", 200, "ok", found)
    /\ UNCHANGED <<reservations, now, pc>>
    /\ UNCHANGED exceptReservations

---------------------------------------------------------------------------
(* GET /api/reservations/:id *)

ViewOutcome(u, id) ==
    IF id \notin DOMAIN reservations THEN "not_found"
    ELSE IF AccessDenied(u, reservations[id]) THEN "not_authorized"
    ELSE "ok"

GetReservation(p, u, id) ==
    LET outcome == ViewOutcome(u, id) IN
    /\ pc[p] = Idle
    /\ IF outcome = "ok"
       THEN Respond("view", 200, "ok", <<reservations[id]>>)
       ELSE Respond("view", ErrorStatus(outcome), outcome, NoData)
    /\ UNCHANGED <<reservations, now, pc>>
    /\ UNCHANGED exceptReservations

---------------------------------------------------------------------------
(* GET /api/reservations *)

DefaultLimit == 12

\* Restaurant.find({ owner: req.user._id })
OwnedRestaurants(u) == {rid \in RestaurantIds : RestaurantOwner(rid) = u}

\* the filter object built from the caller's role and the query: the role's
\* restaurant condition is assigned first and ?restaurant= assigns over it
ListFilter(u, q, doc) ==
    /\ doc.isActive
    /\ UserRole(u) = "user" => doc.user = u
    /\ IF q.restaurant # Absent
       THEN doc.restaurant = q.restaurant
       ELSE UserRole(u) = "restaurant_owner" => doc.restaurant \in OwnedRestaurants(u)
    /\ q.status # Absent => doc.status = q.status
    /\ q.date # AbsentDate
       => (ParseDate(q.date) <= doc.date /\ doc.date < ParseDate(q.date) + TicksPerDay)

\* the order of the time strings the requests use
TimeOrder(time) == IF time = "19:00" THEN 1 ELSE 2

\* sort({ date: 1, time: 1 }), documents that compare equal in insertion order
SortsBefore(store, i, j) ==
    \/ store[i].date < store[j].date
    \/ /\ store[i].date = store[j].date
       /\ \/ TimeOrder(store[i].time) < TimeOrder(store[j].time)
          \/ TimeOrder(store[i].time) = TimeOrder(store[j].time) /\ i < j

RECURSIVE SortedDocs(_, _)
SortedDocs(store, ids) ==
    IF ids = {} THEN <<>>
    ELSE LET first == CHOOSE i \in ids : \A j \in ids \ {i} : SortsBefore(store, i, j)
         IN  <<store[first]>> \o SortedDocs(store, ids \ {first})

\* Reservation.find(filter).sort(sortObj).skip(0).limit(12): the first page
FindPage(store, u, q) ==
    LET sorted == SortedDocs(store, {i \in DOMAIN store : ListFilter(u, q, store[i])})
    IN  SubSeq(sorted, 1, IF Len(sorted) < DefaultLimit THEN Len(sorted) ELSE DefaultLimit)

ListReservations(p, u, q) ==
    /\ pc[p] = Idle
    /\ Respond("list", 200, "ok", FindPage(reservations, u, q))
    /\ UNCHANGED <<reservations, now, pc>>
    /\ UNCHANGED exceptReservations

---------------------------------------------------------------------------
(* The clock *)

Tick(maxNow) ==
    /\ now < maxNow
    /\ now' = now + 1
    /\ UNCHANGED <<reservations, pc, response>>
    /\ UNCHANGED exceptReservations

---------------------------------------------------------------------------
(* Requests: the values a request may carry *)

Iso(d, t) == [day |-> d, tod |-> t]

IsoDates == {Iso(d, t) : d \in 0..MaxDay, t \in 0..(TicksPerDay - 1)}

Slot(rid, iso, time) == [restaurant |-> rid, date |-> iso, time |-> time]

Body(d, t, s) == [date |-> d, time |-> t, status |-> s]

\* the six values of Math.floor(Math.random() * 36) of one generated code
DrawSeqs == {[i \in 1..CodeLen |-> (25 * d + i) % Len(chars)] : d \in 0..MaxDraw}

\* the codes a lookup may name: those the draws generate
Codes == {generateConfirmationCode(draws) : draws \in DrawSeqs}

\* the requests a specification draws from
Requests(I) ==
    \/ \E p \in I.procs, u \in I.users, c \in I.creates :
            CreateReservation(p, u, c.restaurant, c.date, c.time, I.maxRes)
    \/ \E p \in I.procs, draws \in I.draws : CreateInsert(p, draws)
    \/ \E p \in I.procs, u \in I.users, id \in I.ids : ConfirmReservation(p, u, id)
    \/ \E p \in I.procs, u \in I.users, id \in I.ids : CompleteReservation(p, u, id)
    \/ \E p \in I.procs, u \in I.users, id \in I.ids : NoShowReservation(p, u, id)
    \/ \E p \in I.procs, u \in I.users, id \in I.ids, reason \in I.reasons :
            CancelReservation(p, u, id, reason)
    \/ \E p \in I.procs, draws \in I.draws : SaveReservation(p, draws)
    \/ \E p \in I.procs, u \in I.users, id \in I.updateIds, body \in I.bodies :
            UpdateReservation(p, u, id, body)
    \/ \E p \in I.procs : UpdateWrite(p)
    \/ \E p \in I.procs, code \in I.codes : GetReservationByCode(p, code)

\* the read requests by id and the listing
Reads(I) ==
    \/ \E p \in I.procs, u \in I.users, id \in I.ids : GetReservation(p, u, id)
    \/ \E p \in I.procs, u \in I.users, q \in I.queries : ListReservations(p, u, q)

\* the query string of a listing
Query(status, date, restaurant) ==
    [status |-> status, date |-> date, restaurant |-> restaurant]

(* Concurrent requests on one slot: the restaurant's owner books, manages and
   rebooks the same table while another request is in progress. *)
ConcurrentInputs ==
    [procs |-> Procs, users |-> {"o1"},
     creates |-> {Slot("r1", Iso(MaxDay, 0), "19:00")},
     reasons |-> {Absent}, ids |-> {1}, updateIds |-> {1}, draws |-> DrawSeqs,
     codes |-> Codes,
     bodies |-> {Body(AbsentDate, "20:00", Absent)},
     maxRes |-> MaxRes]

Next == Requests(ConcurrentInputs)

Spec == Init /\ [][Next]_vars

(* One request at a time, within one clock instant, over four slots that differ
   in restaurant, date or time, booked by two users; the first reservation goes
   through its lifecycle, any reservation may be moved by an update. *)
SlotInputs ==
    [procs |-> {1}, users |-> {"u1", "o1"},
     creates |-> {Slot("r1", Iso(MaxDay, 0), "19:00"), Slot("r2", Iso(MaxDay, 0), "19:00"),
                  Slot("r1", Iso(MaxDay, 0), "20:00"), Slot("r1", Iso(0, 1), "19:00")},
     reasons |-> {Absent}, ids |-> {1}, updateIds |-> 1..MaxRes, draws |-> DrawSeqs,
     codes |-> Codes,
     bodies |-> {Body(Iso(MaxDay, 0), Absent, Absent), Body(AbsentDate, "19:00", Absent)},
     maxRes |-> MaxRes]

SlotNext == Requests(SlotInputs)

SlotSpec == Init /\ [][SlotNext]_vars

(* One request at a time while the clock advances: one table, booked, managed
   and cancelled by an ordinary user, the restaurant's owner and an admin. *)
LifeInputs ==
    [procs |-> {1}, users |-> {"u1", "o1", "a1"},
     creates |-> {Slot("r1", Iso(MaxDay, 0), "19:00"), Slot("r1", Iso(0, 0), "19:00"),
                  Slot("r1", Iso(0, 1), "19:00")},
     reasons |-> {Absent, "change of plans"}, ids |-> {1}, updateIds |-> {1},
     draws |-> DrawSeqs, codes |-> Codes,
     bodies |-> {Body(Iso(0, 1), Absent, Absent), Body(Iso(0, 0), Absent, Absent)},
     maxRes |-> LifeMaxRes]

LifeNext == Requests(LifeInputs) \/ Tick(MaxNow)

LifeSpec == Init /\ [][LifeNext]_vars

\* a request body with the given members and neither date nor time
FieldsBody(fields) == Body(AbsentDate, Absent, Absent) @@ fields

\* a request body that sets the confirmation code
CodeBody(code) == Body(AbsentDate, Absent, Absent) @@ [confirmationCode |-> code]

(* One request at a time on the booking path: a user books two tables of r1,
   tries r3, which takes no reservations, and r9, which does not exist, cancels
   and looks up by code, and sends updates that name a confirmation code. *)
BookInputs ==
    [procs |-> {1}, users |-> {"u1"},
     creates |-> {Slot("r1", Iso(MaxDay, 0), "19:00"), Slot("r1", Iso(MaxDay, 0), "20:00"),
                  Slot("r3", Iso(MaxDay, 0), "19:00"), Slot("r9", Iso(MaxDay, 0), "19:00"),
                  Slot("r3", Iso(0, 0), "19:00"), Slot("r9", Iso(0, 0), "19:00")},
     reasons |-> {Absent}, ids |-> {1}, updateIds |-> 1..MaxRes, draws |-> DrawSeqs,
     codes |-> Codes,
     bodies |-> {CodeBody(code) : code \in Codes} \cup {FieldsBody([isActive |-> FALSE])},
     maxRes |-> MaxRes]

BookNext == Requests(BookInputs)

BookSpec == Init /\ [][BookNext]_vars

(* One request at a time on one reservation: its user books it, the owner
   manages it, and the user sends updates that name the table's time and the
   fields the lifecycle operations own. *)
UpdateInputs ==
    [procs |-> {1}, users |-> {"u1", "o1"},
     creates |-> {Slot("r1", Iso(MaxDay, 0), "19:00")},
     reasons |-> {Absent}, ids |-> {1}, updateIds |-> {1}, draws |-> DrawSeqs,
     codes |-> Codes,
     bodies |-> {Body(AbsentDate, "20:00", Absent),
                 Body(AbsentDate, Absent, "confirmed"),
                 FieldsBody([isActive |-> FALSE]),
                 FieldsBody([user |-> "o1"]),
                 FieldsBody([restaurant |-> "r2"]),
                 FieldsBody([confirmedAt |-> Iso(0, 1), cancelledAt |-> Iso(0, 1),
                             cancelledBy |-> "system",
                             cancellationReason |-> "none given"])},
     maxRes |-> LifeMaxRes]

UpdateNext == Requests(UpdateInputs)

UpdateSpec == Init /\ [][UpdateNext]_vars

(* One request at a time on one reservation, made at r1 or r2, with every kind
   of caller: its user, another user, and o2, who owns r2 and not r1, reading,
   listing and managing. *)
AccessInputs ==
    [procs |-> {1}, users |-> {"u1", "u2", "o2"},
     creates |-> {Slot("r1", Iso(MaxDay, 0), "19:00"), Slot("r2", Iso(MaxDay, 0), "19:00")},
     reasons |-> {Absent}, ids |-> {1}, updateIds |-> {1}, draws |-> DrawSeqs,
     codes |-> Codes,
     bodies |-> {Body(AbsentDate, "20:00", Absent)},
     queries |-> {Query(Absent, AbsentDate, Absent),
                  Query(Absent, AbsentDate, "r1"),
                  Query("pending", Iso(MaxDay, 0), Absent)},
     maxRes |-> LifeMaxRes]

AccessNext == Requests(AccessInputs) \/ Reads(AccessInputs)

AccessSpec == Init /\ [][AccessNext]_vars

(* One request at a time on one table of r1: two users ask for it on the same
   calendar day with different times of day in the date value. *)
DayInputs ==
    [procs |-> {1}, users |-> {"u1", "u2"},
     creates |-> {Slot("r1", Iso(MaxDay, t), "19:00") : t \in 0..(TicksPerDay - 1)},
     reasons |-> {Absent}, ids |-> {1}, updateIds |-> {1}, draws |-> DrawSeqs,
     codes |-> Codes,
     bodies |-> {Body(AbsentDate, "20:00", Absent)},
     maxRes |-> MaxRes]

DayNext == Requests(DayInputs)

DaySpec == Init /\ [][DayNext]_vars

---------------------------------------------------------------------------
(* The SQLite-backed Reservation model (src/models/Event.js, class Reservation):
   every method is one SQL statement on the reservations table. *)

exceptRows == <<reservations, pc, response, reviews, rating, stories, connection,
                dispatched>>

Null == "null"       \* SQL NULL in a TEXT column

\* the column defaults of CREATE TABLE reservations
NewRow(code) ==
    [ status |-> "pending", confirmation_code |-> code,
      confirmed_at |-> NoDate, cancelled_at |-> NoDate,
      cancelled_by |-> Null, cancellation_reason |-> Null, is_active |-> TRUE ]

\* Reservation.create: INSERT under confirmation_code TEXT UNIQUE
Reservation_create(draws) ==
    LET confirmationCode == generateConfirmationCode(draws) IN
    /\ Len(rows) < MaxRes
    /\ IF \E i \in DOMAIN rows : rows[i].confirmation_code = confirmationCode
       THEN UNCHANGED rows
       ELSE rows' = Append(rows, NewRow(confirmationCode))
    /\ UNCHANGED <<now, exceptRows>>

\* UPDATE reservations SET ... WHERE id = ?
UpdateWhereId(id, set) ==
    /\ rows' = [i \in DOMAIN rows |-> IF i = id THEN set @@ rows[i] ELSE rows[i]]
    /\ UNCHANGED <<now, exceptRows>>

Reservation_confirm(id) ==
    UpdateWhereId(id, [status |-> "confirmed", confirmed_at |-> now])

Reservation_cancel(id, reason, cancelled_by) ==
    UpdateWhereId(id, [status |-> "cancelled", cancelled_at |-> now,
                       cancelled_by |-> cancelled_by, cancellation_reason |-> reason])

Reservation_complete(id) == UpdateWhereId(id, [status |-> "completed"])

Reservation_markNoShow(id) == UpdateWhereId(id, [status |-> "no_show"])

Reservation_delete(id) == UpdateWhereId(id, [is_active |-> FALSE])

\* the ids a caller may name: the stored rows and one that is not stored
RowIds == 1..(MaxRes + 1)

SqlNext ==
    \/ \E draws \in DrawSeqs : Reservation_create(draws)
    \/ \E id \in RowIds : Reservation_confirm(id)
    \/ \E id \in RowIds, by \in {"user", "restaurant"} :
            Reservation_cancel(id, DefaultReason, by)
    \/ \E id \in RowIds : Reservation_complete(id)
    \/ \E id \in RowIds : Reservation_markNoShow(id)
    \/ \E id \in RowIds : Reservation_delete(id)
    \/ Tick(MaxNow)

SqlSpec == Init /\ [][SqlNext]_vars

---------------------------------------------------------------------------
(* Reviews and restaurant ratings: reviewSchema and restaurantSchema.rating
   (src/models/Event.js) and the /api/community/reviews routes
   (src/unnamed/part_002).  The handlers answer through pc and response like
   the reservation handlers. *)

exceptReviews == <<reservations, rows, stories, connection, dispatched>>

RECURSIVE SumRatings(_, _)
SumRatings(store, ids) ==
    IF ids = {} THEN 0
    ELSE LET i == CHOOSE j \in ids : TRUE
         IN  store[i].rating + SumRatings(store, ids \ {i})

\* Math.round(avg * 10) / 10 of the ratings of ids, kept in tenths
RoundedAverage(store, ids) ==
    LET n == Cardinality(ids) IN (20 * SumRatings(store, ids) + n) \div (2 * n)

RatingOf(store, ids) ==
    IF ids = {} THEN [average |-> 0, count |-> 0]
    ELSE [average |-> RoundedAverage(store, ids), count |-> Cardinality(ids)]

\* reviewSchema.statics.updateRestaurantRating: $match { restaurant, isActive: true }
updateRestaurantRating(store, rid) ==
    RatingOf(store, {i \in DOMAIN store : store[i].restaurant = rid /\ store[i].isActive})

\* restaurantSchema.methods.updateRating: Review.find({ restaurant: this._id })
updateRating(store, rid) ==
    RatingOf(store, {i \in DOMAIN store : store[i].restaurant = rid})

\* faulty variant: the unique index on (user, restaurant) is missing
ReviewPairInUseNever(store, u, rid, except) == FALSE

\* reviewSchema.index({ user: 1, restaurant: 1 }, { unique: true })
ReviewPairInUse(store, u, rid, except) ==
    \E i \in DOMAIN store : i # except /\ store[i].user = u /\ store[i].restaurant = rid

\* documents stored or about to be inserted: the bound on the collection
ReviewRoom(maxReviews) ==
    Len(reviews) + Cardinality({q \in Procs : pc[q].op = "review_create"}) < maxReviews

\* POST /reviews up to Review.create
CreateReview(p, u, rid, r, maxReviews) ==
    LET existingReview == \E i \in DOMAIN reviews :
                              reviews[i].user = u /\ reviews[i].restaurant = rid
    IN
    /\ pc[p] = Idle
    /\ ~existingReview => ReviewRoom(maxReviews)
    /\ IF existingReview
       THEN /\ Respond("review_create", 400, "already_reviewed", NoData)
            /\ UNCHANGED pc
       ELSE /\ pc' = [pc EXCEPT ![p] =
                      [op |-> "review_create",
                       doc |-> [user |-> u, restaurant |-> rid, rating |-> r,
                                isActive |-> TRUE]]]
            /\ UNCHANGED response
    /\ UNCHANGED <<reviews, rating, now, exceptReviews>>


\* the handler's next await: restaurant.updateRating(), then the response
Rate(p, op, rid, status, data) ==
    pc' = [pc EXCEPT ![p] = [op |-> "review_rate", from |-> op, restaurant |-> rid,
                             status |-> status, data |-> data]]

\* Review.create: the insert under the unique index, then the post('save') hook;
\* a duplicate key is answered 500 from the catch block
InsertReview(p) ==
    /\ pc[p].op = "review_create"
    /\ LET doc == pc[p].doc IN
       IF ReviewPairInUse(reviews, doc.user, doc.restaurant, 0)
       THEN /\ Respond("review_create", 500, "server_error", NoData)
            /\ pc' = [pc EXCEPT ![p] = Idle]
            /\ UNCHANGED <<reviews, rating>>
       ELSE /\ reviews' = Append(reviews, doc)
            /\ rating' = [rating EXCEPT ![doc.restaurant] =
                             updateRestaurantRating(reviews', doc.restaurant)]
            /\ Rate(p, "review_create", doc.restaurant, 201, <<doc>>)
            /\ UNCHANGED response
    /\ UNCHANGED <<now, exceptReviews>>

\* findById, 404, "Check ownership" of PUT and DELETE /reviews/:id
ReviewOutcome(u, id) ==
    IF id \notin DOMAIN reviews THEN "not_found"
    ELSE IF reviews[id].user # u /\ UserRole(u) # "admin" THEN "not_authorized"
    ELSE "ok"

\* PUT /reviews/:id up to findByIdAndUpdate
UpdateReview(p, u, id, body) ==
    LET outcome == ReviewOutcome(u, id) IN
    /\ pc[p] = Idle
    /\ IF outcome = "ok"
       THEN /\ pc' = [pc EXCEPT ![p] = [op |-> "review_update", id |-> id, body |-> body]]
            /\ UNCHANGED response
       ELSE /\ Respond("review_update", ErrorStatus(outcome), outcome, NoData)
            /\ UNCHANGED pc
    /\ UNCHANGED <<reviews, rating, now, exceptReviews>>

\* Review.findByIdAndUpdate(req.params.id, req.body): the post('findOneAndUpdate')
\* hook reads this.restaurant of the query, which is undefined, and does nothing
WriteReview(p) ==
    /\ pc[p].op = "review_update"
    /\ LET id == pc[p].id
           doc == IF id \in DOMAIN reviews THEN pc[p].body @@ reviews[id] ELSE <<>>
       IN  IF id \notin DOMAIN reviews \/ ReviewPairInUse(reviews, doc.user, doc.restaurant, id)
           THEN /\ Respond("review_update", 500, "server_error", NoData)
                /\ pc' = [pc EXCEPT ![p] = Idle]
                /\ UNCHANGED reviews
           ELSE /\ reviews' = [reviews EXCEPT ![id] = doc]
                /\ Rate(p, "review_update", doc.restaurant, 200, <<doc>>)
                /\ UNCHANGED response
    /\ UNCHANGED <<rating, now, exceptReviews>>

\* DELETE /reviews/:id up to review.save()
DeleteReview(p, u, id) ==
    LET outcome == ReviewOutcome(u, id) IN
    /\ pc[p] = Idle
    /\ IF outcome = "ok"
       THEN /\ pc' = [pc EXCEPT ![p] = [op |-> "review_delete", id |-> id]]
            /\ UNCHANGED response
       ELSE /\ Respond("review_delete", ErrorStatus(outcome), outcome, NoData)
            /\ UNCHANGED pc
    /\ UNCHANGED <<reviews, rating, now, exceptReviews>>

\* review.isActive = false; review.save(): the write and the post('save') hook
SoftDeleteReview(p) ==
    /\ pc[p].op = "review_delete"
    /\ LET id == pc[p].id
           rid == reviews[id].restaurant
       IN  /\ reviews' = [reviews EXCEPT ![id].isActive = FALSE]
           /\ rating' = [rating EXCEPT ![rid] = updateRestaurantRating(reviews', rid)]
           /\ Rate(p, "review_delete", rid, 200, NoData)
    /\ UNCHANGED <<response, now, exceptReviews>>

\* "Update restaurant rating" of the three routes: restaurant.updateRating(),
\* which saves rating.average and rating.count, then the response
RateRestaurant(p) ==
    /\ pc[p].op = "review_rate"
    /\ LET rid == pc[p].restaurant IN
       IF rid \in RestaurantIds
       THEN rating' = [rating EXCEPT ![rid] = updateRating(reviews, rid)]
       ELSE UNCHANGED rating
    /\ Respond(pc[p].from, pc[p].status, "ok", pc[p].data)
    /\ pc' = [pc EXCEPT ![p] = Idle]
    /\ UNCHANGED <<reviews, now, exceptReviews>>

\* the review requests a specification draws from
Community(I) ==
    \/ \E p \in I.procs, u \in I.users, rid \in I.restaurants, r \in I.ratings :
            CreateReview(p, u, rid, r, I.maxReviews)
    \/ \E p \in I.procs : InsertReview(p)
    \/ \E p \in I.procs, u \in I.users, id \in I.ids, body \in I.bodies :
            UpdateReview(p, u, id, body)
    \/ \E p \in I.procs : WriteReview(p)
    \/ \E p \in I.procs, u \in I.users, id \in I.ids : DeleteReview(p, u, id)
    \/ \E p \in I.procs : SoftDeleteReview(p)
    \/ \E p \in I.procs : RateRestaurant(p)

(* One review request at a time: two users and an admin review r1 and r2,
   change their ratings and delete. *)
RatingInputs ==
    [procs |-> {1}, users |-> {"u1", "u2", "a1"}, restaurants |-> {"r1", "r2"},
     ratings |-> {1, 4}, ids |-> 1..MaxRes,
     bodies |-> {[rating |-> 5], [rating |-> 2]},
     maxReviews |-> MaxRes]

RatingNext == Community(RatingInputs)

RatingSpec == Init /\ [][RatingNext]_vars

(* Overlapping review requests: a user reviews r1 and r2 from two clients at
   once, moves a review to the other restaurant and deletes. *)
ReviewInputs ==
    [procs |-> Procs, users |-> {"u1", "u2"}, restaurants |-> {"r1", "r2"},
     ratings |-> {4}, ids |-> {1},
     bodies |-> {[restaurant |-> "r2"]},
     maxReviews |-> MaxRes]

ReviewNext == Community(ReviewInputs)

ReviewSpec == Init /\ [][ReviewNext]_vars

---------------------------------------------------------------------------
(* Stories: storySchema with its pre('save') hook (src/unnamed/part_005).
   A document is created with a status or with the default, and later loaded,
   changed and saved. *)

exceptStories == <<reservations, pc, response, rows, reviews, rating, connection,
                   dispatched>>

StoryStatuses == {"draft", "pending", "published", "archived"}

\* faulty variant: the hook does not look at the publishedAt the document has
PreSaveStoryAlways(doc, statusModified, t) ==
    IF statusModified /\ doc.status = "published"
    THEN [doc EXCEPT !.publishedAt = t]
    ELSE doc

\* storySchema.pre('save'): "Set publishedAt when status changes to published"
PreSaveStory(doc, statusModified, t) ==
    IF statusModified /\ doc.status = "published" /\ doc.publishedAt = NoDate
    THEN [doc EXCEPT !.publishedAt = t]
    ELSE doc

\* new Story({ ..., status }).save(): status is modified when it is given
Story_create(status) ==
    LET doc == [status |-> IF status = Absent THEN "draft" ELSE status,
                publishedAt |-> NoDate, updatedAt |-> now]
    IN  /\ Len(stories) < MaxRes
        /\ stories' = Append(stories, PreSaveStory(doc, status # Absent, now))
        /\ UNCHANGED <<now, exceptStories>>

\* story.status = status; story.save(): isModified('status') when the value differs
Story_saveStatus(id, status) ==
    LET doc == IF status = stories[id].status THEN stories[id]
               ELSE [stories[id] EXCEPT !.status = status, !.updatedAt = now]
    IN
    /\ id \in DOMAIN stories
    /\ stories' = [stories EXCEPT ![id] =
                      PreSaveStory(doc, status # stories[id].status, now)]
    /\ UNCHANGED <<now, exceptStories>>

\* a save that modified other paths (views, likes, comments, isActive)
Story_save(id) ==
    /\ id \in DOMAIN stories
    /\ stories' = [stories EXCEPT ![id] =
                      PreSaveStory([stories[id] EXCEPT !.updatedAt = now], FALSE, now)]
    /\ UNCHANGED <<now, exceptStories>>

StoryNext ==
    \/ \E status \in StoryStatuses \cup {Absent} : Story_create(status)
    \/ \E id \in 1..MaxRes, status \in StoryStatuses : Story_saveStatus(id, status)
    \/ \E id \in 1..MaxRes : Story_save(id)
    \/ Tick(MaxNow)

StorySpec == Init /\ [][StoryNext]_vars

---------------------------------------------------------------------------
(* The MongoDB connection in production mode: connectDBAtlas
   (src/config/database.js) and the events of mongoose.connection. *)

exceptConnection == <<reservations, now, pc, response, rows, reviews, rating, stories,
                      dispatched>>

\* process.exit(1) of the catch block: nothing runs afterwards
Exited == [readyState |-> "exited", listeners |-> 0, timers |-> 0]

\* connectDBAtlas with mongoose.connect resolving: NODE_ENV is 'production', so
\* a listener for 'disconnected' (and for 'error', 'reconnected') is registered
Connected(c) ==
    [c EXCEPT !.readyState = "connected", !.listeners = @ + 1]

\* the call of connectDBAtlas when the server starts
connectDBAtlas ==
    /\ connection = NotConnected
    /\ \/ connection' = Connected(connection)
       \/ connection' = Exited
    /\ UNCHANGED exceptConnection

\* mongoose.connection emits 'disconnected': every registered listener runs
\* setTimeout(() => connectDBAtlas(), 5000)
Disconnected ==
    /\ connection.readyState = "connected"
    /\ connection.timers + connection.listeners <= MaxTimers
    /\ connection' = [connection EXCEPT !.readyState = "disconnected",
                                        !.timers = @ + connection.listeners]
    /\ UNCHANGED exceptConnection

\* the driver reconnects by itself: 'reconnected'
Reconnected ==
    /\ connection.readyState = "disconnected"
    /\ connection.listeners > 0
    /\ connection' = [connection EXCEPT !.readyState = "connected"]
    /\ UNCHANGED exceptConnection

\* a timer fires and calls connectDBAtlas: mongoose.connect resolves, at once
\* when the connection is already up, or rejects while it is down
TimerFires ==
    /\ connection.timers > 0
    /\ connection.listeners < MaxListeners
    /\ LET c == [connection EXCEPT !.timers = @ - 1] IN
       \/ connection' = Connected(c)
       \/ connection.readyState = "disconnected" /\ connection' = Exited
    /\ UNCHANGED exceptConnection

ConnNext == connectDBAtlas \/ Disconnected \/ Reconnected \/ TimerFires

ConnSpec == Init /\ [][ConnNext]_vars

---------------------------------------------------------------------------
(* Route dispatch: each express.Router() tries its routes in the order of
   their registration and runs the first whose method and path match; none of
   the handlers passes the request on. *)

exceptDispatched == <<reservations, now, pc, response, rows, reviews, rating, stories,
                      connection>>

Route(method, path, line) == [method |-> method, path |-> path, line |-> line]

\* src/routes/users.js 11-706, mounted on /api/users
UserRoutes ==
    << Route("GET", <<"profile">>, 16), Route("PUT", <<"profile">>, 41),
       Route("POST", <<"avatar">>, 128), Route("GET", <<"favorites">>, 168),
       Route("GET", <<"reviews">>, 228), Route("GET", <<"stories">>, 301),
       Route("GET", <<"reservations">>, 357), Route("GET", <<"stats">>, 412),
       Route("GET", <<>>, 472), Route("GET", <<":id">>, 532),
       Route("PUT", <<":id">>, 564), Route("DELETE", <<":id">>, 625),
       Route("GET", <<"restaurant-owners">>, 664) >>

\* src/routes/users.js 714-1488, mounted on /api/reservations
ReservationRoutes ==
    << Route("GET", <<>>, 719), Route("GET", <<":id">>, 831),
       Route("POST", <<>>, 879), Route("PUT", <<":id">>, 1000),
       Route("PUT", <<":id", "cancel">>, 1095), Route("PUT", <<":id", "confirm">>, 1174),
       Route("PUT", <<":id", "complete">>, 1228), Route("PUT", <<":id", "no-show">>, 1282),
       Route("GET", <<"confirm", ":code">>, 1336), Route("GET", <<"upcoming">>, 1369),
       Route("GET", <<"stats">>, 1410) >>

\* src/routes/events.js 7-548, mounted on /api/events
EventRoutes ==
    << Route("GET", <<>>, 12), Route("GET", <<":slug">>, 131),
       Route("POST", <<>>, 165), Route("PUT", <<":id">>, 244),
       Route("DELETE", <<":id">>, 313), Route("POST", <<":id", "images">>, 356),
       Route("GET", <<"featured">>, 406), Route("GET", <<"region", ":region">>, 433),
       Route("GET", <<"upcoming">>, 478), Route("GET", <<"type", ":type">>, 506) >>

\* src/unnamed/part_002 8-566, mounted on /api/restaurants
RestaurantRoutes ==
    << Route("GET", <<>>, 13), Route("GET", <<":slug">>, 140),
       Route("POST", <<>>, 187), Route("PUT", <<":id">>, 240),
       Route("DELETE", <<":id">>, 305), Route("POST", <<":id", "images">>, 344),
       Route("GET", <<":id", "reviews">>, 390), Route("POST", <<":id", "favorite">>, 454),
       Route("GET", <<"featured">>, 500), Route("GET", <<"region", ":region">>, 526) >>

Routers == {"users", "reservations", "events", "restaurants"}

Routes(router) ==
    CASE router = "users" -> UserRoutes
      [] router = "reservations" -> ReservationRoutes
      [] router = "events" -> EventRoutes
      [] router = "restaurants" -> RestaurantRoutes

\* the named segments of the route paths: each matches any one segment
Params == {":id", ":slug", ":code", ":region", ":type"}

\* the route's method and path match the request
Matches(route, method, path) ==
    /\ route.method = method
    /\ Len(route.path) = Len(path)
    /\ \A k \in DOMAIN path : route.path[k] \in Params \/ route.path[k] = path[k]

\* the first matching route in registration order, 0 when none matches (404)
Dispatch(routes, method, path) ==
    LET matching == {k \in DOMAIN routes : Matches(routes[k], method, path)}
    IN  IF matching = {} THEN 0
        ELSE CHOOSE k \in matching : \A j \in matching : k <= j

\* a request below a router's mount point
Request(router, method, path) ==
    /\ dispatched' = [router |-> router, method |-> method, path |-> path,
                      route |-> Dispatch(Routes(router), method, path)]
    /\ UNCHANGED exceptDispatched

Methods == {"GET", "POST", "PUT", "DELETE"}

\* the request paths: the literal single-segment paths, an id, and longer paths
Paths ==
    { <<>>, <<"upcoming">>, <<"stats">>, <<"featured">>, <<"restaurant-owners">>,
      <<"profile">>, <<"64a1f0">>, <<"64a1f0", "cancel">>, <<"confirm", "ABC123">>,
      <<"region", "minho">> }

RouteNext ==
    \E router \in Routers, method \in Methods, path \in Paths :
        Request(router, method, path)

RouteSpec == Init /\ [][RouteNext]_vars

---------------------------------------------------------------------------
(* Vocabulary of the claims *)

Active(doc) == doc.status \in ActiveStatuses

SameSlot(a, b) ==
    a.restaurant = b.restaurant /\ a.date = b.date /\ a.time = b.time

\* some stored reservation on the slot (rid, date, time) is pending or confirmed
SlotHeld(store, rid, date, time) ==
    \E i \in DOMAIN store :
        /\ store[i].restaurant = rid /\ store[i].date = date /\ store[i].time = time
        /\ Active(store[i])

LifecycleOps == {"confirm", "cancel", "complete", "no_show"}

\* what every step of the handler of op by process p does, whatever its inputs:
\* it starts from an idle process and either goes on to its write or answers.
\* Each handler action implies it; the formulas below test it first, before
\* they try the action on every input.
HandlerStep(op, p) ==
    /\ pc[p] = Idle
    /\ (pc'[p].op = op \/ (pc'[p] = Idle /\ response'.op = op))

---------------------------------------------------------------------------
(* C1: in every state reached by reservation requests made one after another,
   each (restaurant, date, time) slot has at most one reservation whose status
   is pending or confirmed.  Violated: the update route moves a reservation
   onto a held slot without a conflict query, and confirm revives a completed
   reservation whose slot was booked again. *)
C1_AtMostOneActivePerSlot ==
    \A i, j \in DOMAIN reservations :
        (i # j /\ Active(reservations[i]) /\ Active(reservations[j]))
            => ~SameSlot(reservations[i], reservations[j])

---------------------------------------------------------------------------
(* C2: of several create requests for one slot running concurrently, one
   succeeds and every other fails with the slot-conflict error, so that two
   pending or confirmed reservations of the slot never exist.  Stated of the
   step that ends a create request: if the slot is held by then, the request
   does not succeed and stores nothing.  Violated: the conflict query and the
   insert are separate store operations, and both requests may pass the query
   before either inserts. *)
C2_ConcurrentCreateExclusive ==
    [][\A p \in Procs :
          (/\ pc[p].op = "create"
           /\ pc'[p] = Idle
           /\ SlotHeld(reservations, pc[p].doc.restaurant, pc[p].doc.date, pc[p].doc.time))
          => (/\ response'.status # 201
              /\ reservations' = reservations)]_vars

---------------------------------------------------------------------------
\* a create request that passes the date and restaurant checks
ValidCreate(c) ==
    /\ ParseDate(c.date) > now
    /\ c.restaurant \in RestaurantIds
    /\ AcceptsReservations(c.restaurant)

(* C3: an otherwise valid create request is rejected with the slot-taken error
   if and only if some stored reservation has the same restaurant, date and
   time string and status pending or confirmed, whichever user made it; and
   the conflict check changes nothing in the store. *)
C3_ConflictIffSlotHeld ==
    [][\A p \in SlotInputs.procs :
          HandlerStep("create", p)
          => \A u \in SlotInputs.users, c \in SlotInputs.creates :
                (/\ ValidCreate(c)
                 /\ CreateReservation(p, u, c.restaurant, c.date, c.time, SlotInputs.maxRes))
                => (/\ (pc'[p] = Idle /\ response'.op = "create"
                          /\ response'.message = "slot_taken" /\ response'.status = 400)
                       <=> SlotHeld(reservations, c.restaurant, ParseDate(c.date), c.time)
                    /\ reservations' = reservations)]_vars

\* a create request was refused for a slot held by a confirmed reservation while
\* a reservation that does not hold it (another slot, or a terminal status) is stored
C3_Witness ==
    /\ response.op = "create" /\ response.message = "slot_taken"
    /\ Len(reservations) = 2
    /\ \E i \in DOMAIN reservations : reservations[i].status = "confirmed"

---------------------------------------------------------------------------
\* the slot was held and is released: a reservation on it is cancelled, completed
\* or no_show, and none is pending or confirmed
Released(store, rid, date, time) ==
    /\ ~SlotHeld(store, rid, date, time)
    /\ \E i \in DOMAIN store :
          /\ store[i].restaurant = rid /\ store[i].date = date /\ store[i].time = time
          /\ store[i].status \in {"cancelled", "completed", "no_show"}

(* C4: after the reservation holding a slot has been cancelled, completed or
   marked no-show, a later valid create request for the slot is not rejected
   for conflict and produces a new pending reservation.  Violated: the insert
   fails when the generated confirmation code is already stored. *)
C4_ReleasedSlotIsBookable ==
    [][\A p \in SlotInputs.procs :
          /\ \A u \in SlotInputs.users, c \in SlotInputs.creates :
                (/\ CreateReservation(p, u, c.restaurant, c.date, c.time, SlotInputs.maxRes)
                 /\ ValidCreate(c)
                 /\ Released(reservations, c.restaurant, ParseDate(c.date), c.time))
                => pc'[p].op = "create"
          /\ (/\ pc[p].op = "create"
              /\ pc'[p] = Idle
              /\ Released(reservations, pc[p].doc.restaurant, pc[p].doc.date, pc[p].doc.time))
             => (/\ response'.status = 201
                 /\ Len(reservations') = Len(reservations) + 1
                 /\ reservations'[Len(reservations')].status = "pending"
                 /\ SameSlot(reservations'[Len(reservations')], pc[p].doc))]_vars

---------------------------------------------------------------------------
\* a step of one of the four lifecycle handlers on reservation id
LifecycleRequest(p, u, id) ==
    \/ ConfirmReservation(p, u, id)
    \/ CompleteReservation(p, u, id)
    \/ NoShowReservation(p, u, id)
    \/ \E reason \in LifeInputs.reasons : CancelReservation(p, u, id, reason)

(* C5: cancellation is terminal.  Every confirm, complete, mark-no-show or
   cancel request on a reservation whose status is cancelled, the requests
   running one after another, is rejected with an error and changes nothing,
   and no write of these four handlers takes the status away from cancelled
   (so confirm, cancel, confirm fails at the second confirm). *)
C5_CancelledIsTerminal ==
    [][\A id \in DOMAIN reservations :
          reservations[id].status = "cancelled"
          => \A p \in LifeInputs.procs :
                /\ (\E op \in LifecycleOps : HandlerStep(op, p))
                   => \A u \in LifeInputs.users :
                         LifecycleRequest(p, u, id)
                         => (/\ pc'[p] = Idle
                             /\ response'.status \in {400, 403}
                             /\ reservations' = reservations)
                /\ (pc[p].op \in LifecycleOps /\ pc'[p] = Idle)
                   => reservations'[id].status = "cancelled"]_vars

\* confirm, then cancel, then confirm: the second confirm was refused
C5_Witness ==
    /\ response.op = "confirm" /\ response.message = "is_cancelled"
    /\ Len(reservations) >= 1
    /\ reservations[1].status = "cancelled"
    /\ reservations[1].confirmedAt # NoDate

---------------------------------------------------------------------------
(* C6: completed and no_show are terminal: once a reservation's status is
   completed or no_show, no confirm, cancel, complete or mark-no-show request
   changes it again.  Violated: the guards of confirm, cancel, complete and
   no-show only exclude their own target status and cancelled (cancel:
   cancelled and completed). *)
C6_CompletedNoShowTerminal ==
    [][\A id \in DOMAIN reservations :
          reservations[id].status \in {"completed", "no_show"}
          => reservations'[id].status = reservations[id].status]_vars

---------------------------------------------------------------------------
\* the fields of a stored document outside a set of paths are unchanged
OnlyPathsChange(id, paths) ==
    /\ DOMAIN reservations' = DOMAIN reservations
    /\ \A j \in DOMAIN reservations :
          \A f \in DOMAIN reservations[j] :
              (j # id \/ f \notin paths) => reservations'[j][f] = reservations[j][f]

(* C7: a successful confirm sets status confirmed and confirmedAt to the current
   time; a successful cancel(reason, actor) sets status cancelled, cancelledAt to
   the current time, cancellationReason to the reason supplied and cancelledBy
   to the kind of actor who cancelled, 'user' when the reserving user cancels;
   a successful complete or mark-no-show sets the status and no timestamp.
   Violated: cancelledBy is derived from the caller's role, so a reserving
   user whose role is admin, cancelling the own reservation at a restaurant of
   somebody else, is recorded as 'restaurant'. *)
C7_TransitionEffects ==
    [][\A p \in LifeInputs.procs :
          /\ \A u \in LifeInputs.users, id \in DOMAIN reservations :
                /\ (ConfirmReservation(p, u, id) /\ pc'[p].op = "confirm")
                   => (pc'[p].doc.status = "confirmed" /\ pc'[p].doc.confirmedAt = now)
                /\ \A reason \in LifeInputs.reasons :
                      (CancelReservation(p, u, id, reason) /\ pc'[p].op = "cancel")
                      => (/\ pc'[p].doc.status = "cancelled"
                          /\ pc'[p].doc.cancelledAt = now
                          /\ pc'[p].doc.cancellationReason =
                                (IF reason = Absent THEN DefaultReason ELSE reason)
                          /\ (u = reservations[id].user
                                /\ RestaurantOwner(reservations[id].restaurant) # u)
                             => pc'[p].doc.cancelledBy = "user")
          /\ (pc[p].op \in {"confirm", "cancel", "complete", "no_show"} /\ pc'[p] = Idle)
             => LET id == pc[p].id
                    paths == CASE pc[p].op = "confirm" -> {"status", "confirmedAt"}
                               [] pc[p].op = "cancel" ->
                                    {"status", "cancelledAt", "cancelledBy",
                                     "cancellationReason"}
                               [] OTHER -> {"status"}
                IN  /\ response'.status = 200
                    /\ OnlyPathsChange(id, paths)
                    /\ \A f \in paths : reservations'[id][f] = pc[p].doc[f]
                    /\ reservations'[id].status =
                          (CASE pc[p].op = "confirm" -> "confirmed"
                             [] pc[p].op = "cancel" -> "cancelled"
                             [] pc[p].op = "complete" -> "completed"
                             [] OTHER -> "no_show")]_vars

---------------------------------------------------------------------------
\* the precondition of a lifecycle operation fails on a reservation of this status
PreconditionFails(op, status) ==
    \/ op = "confirm" /\ status = "confirmed"
    \/ op = "cancel" /\ status \in {"cancelled", "completed"}
    \/ op = "complete" /\ status \in {"completed", "cancelled"}
    \/ op = "no_show" /\ status \in {"no_show", "cancelled"}

\* the caller passes the handler's authorization checks on the document
MayManage(op, u, doc) ==
    IF op = "cancel" THEN ~AccessDenied(u, doc)
    ELSE restaurantOwner(u) /\ ~NotRestaurantOwner(u, doc)

Handler(op, p, u, id) ==
    CASE op = "confirm" -> ConfirmReservation(p, u, id)
      [] op = "complete" -> CompleteReservation(p, u, id)
      [] op = "no_show" -> NoShowReservation(p, u, id)
      [] op = "cancel" -> \E reason \in LifeInputs.reasons : CancelReservation(p, u, id, reason)

(* C8: a lifecycle request whose precondition fails (confirm on confirmed, cancel
   on cancelled or completed, complete on completed or cancelled, mark-no-show
   on no_show or cancelled) is answered with an error, 400 when the caller may
   manage the reservation, and leaves status, confirmedAt, cancelledAt,
   cancelledBy and cancellationReason (the whole store) as they were. *)
C8_FailedTransitionChangesNothing ==
    [][\A p \in LifeInputs.procs, op \in LifecycleOps :
          HandlerStep(op, p)
          => \A u \in LifeInputs.users, id \in DOMAIN reservations :
                (/\ PreconditionFails(op, reservations[id].status)
                 /\ Handler(op, p, u, id))
                => (/\ pc'[p] = Idle
                    /\ response'.op = op
                    /\ response'.status \in {400, 403}
                    /\ MayManage(op, u, reservations[id]) => response'.status = 400
                    /\ reservations' = reservations)]_vars

\* a cancel was refused on a completed reservation that had been confirmed
C8_Witness ==
    /\ response.op = "cancel" /\ response.message = "is_completed"
    /\ Len(reservations) >= 1
    /\ reservations[1].status = "completed"
    /\ reservations[1].confirmedAt # NoDate
    /\ reservations[1].cancelledAt = NoDate

---------------------------------------------------------------------------
AlphaNum ==
    { "A", "B", "C", "D", "E", "F", "G", "H", "I", "J", "K", "L", "M",
      "N", "O", "P", "Q", "R", "S", "T", "U", "V", "W", "X", "Y", "Z",
      "0", "1", "2", "3", "4", "5", "6", "7", "8", "9" }

(* C9: every reservation stored by a successful create request has status
   pending and a confirmation code of exactly 6 characters, each from A-Z or
   0-9; the response carries that code, and the lookup by that code returns
   the reservation. *)
C9_CreatedHasCode ==
    [][\A p \in SlotInputs.procs :
          (pc[p].op = "create" /\ pc'[p] = Idle /\ response'.status = 201)
          => LET n == Len(reservations')
                 d == reservations'[n]
             IN  /\ n = Len(reservations) + 1
                 /\ \A j \in DOMAIN reservations : reservations'[j] = reservations[j]
                 /\ d.status = "pending"
                 /\ Len(d.confirmationCode) = 6
                 /\ \A k \in 1..Len(d.confirmationCode) : d.confirmationCode[k] \in AlphaNum
                 /\ Len(response'.data) = 1
                 /\ response'.data[1].confirmationCode = d.confirmationCode
                 /\ FindByCode(reservations', d.confirmationCode) = <<d>>]_vars

\* the second reservation created was looked up by its code
C9_Witness ==
    /\ response.op = "lookup" /\ response.status = 200
    /\ Len(reservations) = 2
    /\ response.data = <<reservations[2]>>
    /\ reservations[2].status = "pending"

---------------------------------------------------------------------------
(* C10: a create request, and an update request that supplies a date, whose
   date is not strictly later than the current time is rejected, with the
   date validation error (after the not-found and not-authorized checks of
   update), creates no reservation and changes no field of a stored one. *)
C10_PastDateRejected ==
    [][\A p \in LifeInputs.procs :
          /\ HandlerStep("create", p)
             => \A u \in LifeInputs.users, c \in LifeInputs.creates :
                   (/\ ParseDate(c.date) <= now
                    /\ CreateReservation(p, u, c.restaurant, c.date, c.time,
                                         LifeInputs.maxRes))
                   => (/\ pc'[p] = Idle
                       /\ response'.op = "create" /\ response'.status = 400
                       /\ response'.message = "date_not_future"
                       /\ reservations' = reservations)
          /\ HandlerStep("update", p)
             => \A u \in LifeInputs.users, id \in LifeInputs.updateIds,
                   body \in LifeInputs.bodies :
                   (/\ body.date # AbsentDate
                    /\ ParseDate(body.date) <= now
                    /\ UpdateReservation(p, u, id, body))
                   => (/\ pc'[p] = Idle
                       /\ response'.op = "update"
                       /\ response'.status \in {400, 403, 404}
                       /\ (id \in DOMAIN reservations /\ ~AccessDenied(u, reservations[id]))
                          => (response'.status = 400 /\ response'.message = "date_not_future")
                       /\ reservations' = reservations)]_vars

\* an update naming a date that has passed was refused after the clock advanced
C10_Witness ==
    /\ response.op = "update" /\ response.message = "date_not_future"
    /\ now > 0
    /\ Len(reservations) = 1

---------------------------------------------------------------------------
(* C11: a create request against a restaurant that does not exist, or against
   one whose features.acceptsReservations is not true, is rejected and stores
   no reservation, although the slot it names is free; when its date passes
   the date check, which comes first, the answer is 404 not found for the
   missing restaurant and the 400 policy error for the other. *)
C11_RestaurantChecks ==
    [][\A p \in BookInputs.procs :
          HandlerStep("create", p)
          => \A u \in BookInputs.users, c \in BookInputs.creates :
                (/\ CreateReservation(p, u, c.restaurant, c.date, c.time, BookInputs.maxRes)
                 /\ (c.restaurant \notin RestaurantIds \/ ~AcceptsReservations(c.restaurant))
                 /\ ~SlotHeld(reservations, c.restaurant, ParseDate(c.date), c.time))
                => (/\ pc'[p] = Idle
                    /\ reservations' = reservations
                    /\ response'.op = "create"
                    /\ response'.status \in {400, 404}
                    /\ ParseDate(c.date) > now
                       => IF c.restaurant \notin RestaurantIds
                          THEN /\ response'.status = 404
                               /\ response'.message = "restaurant_not_found"
                          ELSE /\ response'.status = 400
                               /\ response'.message = "no_reservations")]_vars

\* a booking at the restaurant that takes no reservations was refused while
\* another restaurant's table was booked
C11_Witness ==
    /\ response.op = "create" /\ response.message = "no_reservations"
    /\ Len(reservations) = 1
    /\ reservations[1].status = "pending"

---------------------------------------------------------------------------
(* C12: in every reachable state no two stored reservations have the same
   confirmation code: the generator draws without looking at the stored codes,
   and an update may name any code, but the unique index refuses the write. *)
C12_UniqueCodes ==
    \A i, j \in DOMAIN reservations :
        i # j => reservations[i].confirmationCode # reservations[j].confirmationCode

\* a write that would have stored a code a second time was refused
C12_Witness ==
    /\ response.status = 500
    /\ Len(reservations) = 2
    /\ reservations[1].confirmationCode \in Codes
    /\ reservations[2].confirmationCode \in Codes

---------------------------------------------------------------------------
\* the confirmation codes stored in a collection
StoredCodes(store) == {store[i].confirmationCode : i \in DOMAIN store}

(* C13: every valid create request (future date, existing restaurant that
   accepts reservations, no pending or confirmed reservation on the slot)
   succeeds and stores a reservation whose confirmation code differs from
   every code stored before; a generated code that equals a stored one does
   not make it fail.  Violated: the code is drawn once, never compared with
   the stored codes, and the unique index turns a repeated code into a 500. *)
C13_ValidCreateSucceeds ==
    [][\A p \in BookInputs.procs :
          /\ HandlerStep("create", p)
             => \A u \in BookInputs.users, c \in BookInputs.creates :
                   (/\ CreateReservation(p, u, c.restaurant, c.date, c.time,
                                         BookInputs.maxRes)
                    /\ ValidCreate(c)
                    /\ ~SlotHeld(reservations, c.restaurant, ParseDate(c.date), c.time))
                   => pc'[p].op = "create"
          /\ (pc[p].op = "create" /\ pc'[p] = Idle)
             => (/\ response'.status = 201
                 /\ Len(response'.data) = 1
                 /\ response'.data[1].confirmationCode \notin StoredCodes(reservations)
                 /\ reservations' = Append(reservations, response'.data[1]))]_vars

---------------------------------------------------------------------------
(* C14: once a reservation is stored, no update, confirm, cancel, complete or
   mark-no-show request changes its confirmation code.  Violated: the update
   route hands the request body to findByIdAndUpdate, so a body that names
   confirmationCode overwrites the stored code. *)
C14_CodeImmutable ==
    [][\A id \in DOMAIN reservations :
          reservations'[id].confirmationCode = reservations[id].confirmationCode]_vars

---------------------------------------------------------------------------
\* the fields the lifecycle operations own, with the parties and the soft-delete flag
LifecycleFields ==
    {"status", "confirmedAt", "cancelledAt", "cancelledBy", "cancellationReason",
     "user", "restaurant", "isActive"}

(* C15: whatever the request body contains, a successful update leaves the
   reservation's status, confirmedAt, cancelledAt, cancelledBy,
   cancellationReason, user, restaurant and isActive as they were.  Violated:
   findByIdAndUpdate writes every member of the body that is a schema path. *)
C15_UpdateKeepsLifecycleFields ==
    [][\A p \in UpdateInputs.procs :
          (pc[p].op = "update" /\ pc'[p] = Idle /\ response'.status = 200)
          => \A f \in LifecycleFields :
                reservations'[pc[p].id][f] = reservations[pc[p].id][f]]_vars

---------------------------------------------------------------------------
\* the update would move reservation id onto a slot that another pending or
\* confirmed reservation holds
MovesOntoHeldSlot(id, body) ==
    LET target == ApplyBody(reservations[id], body) IN
    /\ ~SameSlot(target, reservations[id])
    /\ \E j \in DOMAIN reservations :
          j # id /\ Active(reservations[j]) /\ SameSlot(reservations[j], target)

(* C16: an update, by a caller allowed to edit the reservation and with a date
   in the future, that changes the date or time to a slot on which another
   reservation is pending or confirmed is rejected with the slot-conflict
   error and leaves the reservation as it was.  Violated: the update route
   runs no conflict query. *)
C16_UpdateConflictRejected ==
    [][\A p \in SlotInputs.procs :
          HandlerStep("update", p)
          => \A u \in SlotInputs.users, id \in DOMAIN reservations,
                body \in SlotInputs.bodies :
                (/\ UpdateReservation(p, u, id, body)
                 /\ ~AccessDenied(u, reservations[id])
                 /\ InBody(body, "date") => ParseDate(body.date) > now
                 /\ MovesOntoHeldSlot(id, body))
                => (/\ pc'[p] = Idle
                    /\ response'.op = "update"
                    /\ response'.status = 400
                    /\ response'.message = "slot_taken"
                    /\ reservations' = reservations)]_vars

---------------------------------------------------------------------------
TerminalStatuses == {"cancelled", "completed", "no_show"}

(* C17: an update request on a reservation whose status is cancelled, completed
   or no_show is rejected and changes none of its fields.  Violated: the
   update route never looks at the status. *)
C17_TerminalNotUpdatable ==
    [][\A p \in LifeInputs.procs :
          /\ HandlerStep("update", p)
             => \A u \in LifeInputs.users, id \in DOMAIN reservations,
                   body \in LifeInputs.bodies :
                   (/\ UpdateReservation(p, u, id, body)
                    /\ reservations[id].status \in TerminalStatuses)
                   => (/\ pc'[p] = Idle
                       /\ response'.op = "update"
                       /\ response'.status \in {400, 403, 404}
                       /\ reservations' = reservations)
          /\ (/\ pc[p].op = "update"
              /\ pc'[p] = Idle
              /\ reservations[pc[p].id].status \in TerminalStatuses)
             => reservations' = reservations]_vars

---------------------------------------------------------------------------
ByIdOps == {"view", "update", "cancel", "confirm", "complete", "no_show"}

\* a step of the by-id handler named by op, on reservation id
ByIdRequest(op, p, u, id) ==
    CASE op = "view" -> GetReservation(p, u, id)
      [] op = "update" -> \E body \in AccessInputs.bodies : UpdateReservation(p, u, id, body)
      [] op = "cancel" -> \E reason \in AccessInputs.reasons : CancelReservation(p, u, id, reason)
      [] op = "confirm" -> ConfirmReservation(p, u, id)
      [] op = "complete" -> CompleteReservation(p, u, id)
      [] op = "no_show" -> NoShowReservation(p, u, id)

\* the caller is neither the user who made the reservation, nor the owner of
\* the reserved restaurant, nor an administrator
Outsider(u, doc) ==
    /\ doc.user # u
    /\ ~(doc.restaurant \in RestaurantIds /\ RestaurantOwner(doc.restaurant) = u)
    /\ UserRole(u) # "admin"

(* C18: a view, update, cancel, confirm, complete or mark-no-show request on a
   reservation by a caller who is neither its user, nor the owner of its
   restaurant, nor an administrator is answered 403 not authorized, returns no
   reservation and changes nothing. *)
C18_OutsiderDenied ==
    [][\A p \in AccessInputs.procs, op \in ByIdOps :
          HandlerStep(op, p)
          => \A u \in AccessInputs.users, id \in DOMAIN reservations :
                (ByIdRequest(op, p, u, id) /\ Outsider(u, reservations[id]))
                => (/\ pc'[p] = Idle
                    /\ response'.op = op
                    /\ response'.status = 403
                    /\ response'.message \in {"not_authorized", "forbidden_role"}
                    /\ response'.data = NoData
                    /\ reservations' = reservations)]_vars

\* another user's cancel of u1's reservation at r2 was refused
C18_Witness ==
    /\ response.op = "cancel" /\ response.message = "not_authorized"
    /\ Len(reservations) = 1
    /\ reservations[1].user = "u1"
    /\ reservations[1].restaurant = "r2"
    /\ reservations[1].status = "confirmed"

\* the reservations a caller may be shown in a listing, by role
MayList(u, doc) ==
    /\ UserRole(u) = "user" => doc.user = u
    /\ UserRole(u) = "restaurant_owner"
       => (doc.restaurant \in RestaurantIds /\ RestaurantOwner(doc.restaurant) = u)

(* C19: the listing returns to a caller of role 'user' only reservations of
   that user, and to a caller of role 'restaurant_owner' only reservations at
   restaurants that caller owns, whatever the status, date and restaurant
   filters of the query. *)
C19_ListScopedToCaller ==
    [][\A p \in AccessInputs.procs :
          (pc[p] = Idle /\ response'.op = "list")
          => \A u \in AccessInputs.users, q \in AccessInputs.queries :
                ListReservations(p, u, q)
                => \A i \in DOMAIN response'.data : MayList(u, response'.data[i])]_vars

\* the stored reservations a lookup by code may return
Holders(store, code) ==
    {i \in DOMAIN store : store[i].confirmationCode = code /\ store[i].isActive}

(* C20: the lookup by confirmation code takes no caller and changes nothing;
   it answers 200 with the reservation that has that code when one exists and
   is not soft-deleted, and 404 with no data when no reservation has the code
   or the one that has it is soft-deleted. *)
C20_LookupByCode ==
    [][\A p \in BookInputs.procs :
          HandlerStep("lookup", p)
          => /\ reservations' = reservations
             /\ pc' = pc
             /\ \A code \in BookInputs.codes :
                   GetReservationByCode(p, code)
                   => IF Holders(reservations, code) = {}
                      THEN response'.status = 404 /\ response'.data = NoData
                      ELSE /\ response'.status = 200
                           /\ Len(response'.data) = 1
                           /\ \E i \in Holders(reservations, code) :
                                 response'.data[1] = reservations[i]]_vars

\* a lookup was answered not found while every code that can be asked for
\* belongs to a soft-deleted reservation
C20_Witness ==
    /\ response.op = "lookup" /\ response.status = 404
    /\ \A code \in Codes :
          \E i \in DOMAIN reservations :
              reservations[i].confirmationCode = code /\ ~reservations[i].isActive

---------------------------------------------------------------------------
\* the calendar day of a stored date
DayOf(date) == date \div TicksPerDay

\* some stored reservation of the restaurant on that calendar day with that time
\* string is pending or confirmed
DayHeld(store, rid, day, time) ==
    \E i \in DOMAIN store :
        /\ store[i].restaurant = rid /\ DayOf(store[i].date) = day /\ store[i].time = time
        /\ Active(store[i])

(* C21: an otherwise valid create request for a restaurant, calendar day and
   time string on which a pending or confirmed reservation is stored is
   rejected with the slot-taken error, whatever the time of day in the two
   date values, and stores nothing.  Violated: the double-booking query matches
   the date by the exact instant. *)
C21_SameDayConflicts ==
    [][\A p \in DayInputs.procs :
          HandlerStep("create", p)
          => \A u \in DayInputs.users, c \in DayInputs.creates :
                (/\ ValidCreate(c)
                 /\ DayHeld(reservations, c.restaurant, c.date.day, c.time)
                 /\ CreateReservation(p, u, c.restaurant, c.date, c.time, DayInputs.maxRes))
                => (/\ pc'[p] = Idle
                    /\ response'.op = "create"
                    /\ response'.message = "slot_taken"
                    /\ reservations' = reservations)]_vars

(* C23: a cancel request by the user who made the reservation, on a pending or
   confirmed reservation, is not answered not authorized, whatever the role of
   that user's account.  Violated: a caller of role restaurant_owner is checked
   against the restaurant's owner only. *)
C23_OwnUserMayCancel ==
    [][\A p \in AccessInputs.procs :
          HandlerStep("cancel", p)
          => \A u \in AccessInputs.users, id \in DOMAIN reservations,
                reason \in AccessInputs.reasons :
                (/\ reservations[id].user = u
                 /\ Active(reservations[id])
                 /\ CancelReservation(p, u, id, reason))
                => ~(response'.op = "cancel" /\ response'.status = 403)]_vars

ManageOps == {"confirm", "complete", "no_show"}

\* a step of the confirm, complete or no-show handler on reservation id
ManageRequest(op, p, u, id) ==
    CASE op = "confirm" -> ConfirmReservation(p, u, id)
      [] op = "complete" -> CompleteReservation(p, u, id)
      [] op = "no_show" -> NoShowReservation(p, u, id)

(* C24: a confirm, complete or no-show request by a caller of role admin who
   passed the restaurantOwner middleware is not answered not authorized.
   Violated: the handlers compare restaurant.owner with the caller whatever the
   caller's role. *)
C24_AdminMayManage ==
    [][\A p \in LifeInputs.procs, op \in ManageOps :
          HandlerStep(op, p)
          => \A u \in LifeInputs.users, id \in DOMAIN reservations :
                (/\ UserRole(u) = "admin"
                 /\ restaurantOwner(u)
                 /\ ManageRequest(op, p, u, id))
                => ~(response'.op = op /\ response'.status = 403)]_vars

(* C27: in every state reached by overlapping create, confirm, cancel,
   complete and no-show requests, a stored reservation has cancelledAt and
   cancelledBy set exactly when its status is cancelled.  Violated: a confirm
   and a cancel that both read the pending reservation save one after the
   other, and the later save writes only its own modified paths. *)
C27_CancelFieldsIffCancelled ==
    \A i \in DOMAIN reservations :
        /\ reservations[i].cancelledAt # NoDate <=> reservations[i].status = "cancelled"
        /\ reservations[i].cancelledBy # Absent <=> reservations[i].status = "cancelled"

---------------------------------------------------------------------------
LifecycleColumns ==
    {"status", "confirmed_at", "cancelled_at", "cancelled_by", "cancellation_reason"}

\* the row keeps its lifecycle columns in the step
KeepsLifecycle(id) == \A c \in LifecycleColumns : rows'[id][c] = rows[id][c]

(* C25: in the SQLite model, confirm, complete and markNoShow applied to a row
   whose status is cancelled, and cancel applied to a row whose status is
   cancelled or completed, leave status, confirmed_at, cancelled_at,
   cancelled_by and cancellation_reason of the row as they were.  Violated:
   each method is an UPDATE ... WHERE id = ? without a condition on status. *)
C25_SqliteLifecycleGuards ==
    [][\A id \in DOMAIN rows :
          /\ (/\ rows[id].status = "cancelled"
              /\ \/ Reservation_confirm(id)
                 \/ Reservation_complete(id)
                 \/ Reservation_markNoShow(id))
             => KeepsLifecycle(id)
          /\ (/\ rows[id].status \in {"cancelled", "completed"}
              /\ \E by \in {"user", "restaurant"} : Reservation_cancel(id, DefaultReason, by))
             => KeepsLifecycle(id)]_vars

---------------------------------------------------------------------------
\* count and rounded mean (in tenths) of the restaurant's reviews with isActive
ActiveRating(store, rid) ==
    LET active == {i \in DOMAIN store : store[i].restaurant = rid /\ store[i].isActive}
    IN  IF active = {} THEN [average |-> 0, count |-> 0]
        ELSE [average |-> RoundedAverage(store, active), count |-> Cardinality(active)]

(* C22: whenever no review request is in progress, every restaurant's stored
   rating.count is the number of its active reviews and rating.average is their
   mean rounded to one decimal, both 0 without active reviews.  Violated: the
   routes' restaurant.updateRating() counts soft-deleted reviews too, and runs
   after the post-save recomputation. *)
C22_RatingMatchesActiveReviews ==
    (\A p \in Procs : pc[p] = Idle)
        => \A rid \in RestaurantIds : rating[rid] = ActiveRating(reviews, rid)

SamePair(a, b) == a.user = b.user /\ a.restaurant = b.restaurant

(* C28: no two stored reviews have the same user and restaurant, also when
   create requests overlap; and a step that stores a new review stores it for
   a pair that had no review, active or soft-deleted. *)
C28_OneReviewPerPair ==
    /\ [](\A i, j \in DOMAIN reviews : i # j => ~SamePair(reviews[i], reviews[j]))
    /\ [][Len(reviews') > Len(reviews)
            => \A i \in DOMAIN reviews : ~SamePair(reviews[i], reviews'[Len(reviews')])]_vars

\* the insert of an overlapping create request for a reviewed pair was refused
\* by the index while the pair's review is soft-deleted
C28_Witness ==
    /\ response.op = "review_create" /\ response.status = 500
    /\ Len(reviews) = 1
    /\ ~reviews[1].isActive

---------------------------------------------------------------------------
(* C29: a save in which a story's status becomes published sets publishedAt to
   the time of that save when the story has none; no save changes a publishedAt
   that is set, whether it moves the status away from published or back; and
   publishedAt is only ever set by a save that leaves the status published, so
   a story never saved as published has none. *)
C29_PublishedAtSetOnce ==
    [][/\ \A id \in DOMAIN stories :
            /\ stories[id].publishedAt # NoDate
                  => stories'[id].publishedAt = stories[id].publishedAt
            /\ (/\ stories[id].publishedAt = NoDate
                /\ stories[id].status # "published"
                /\ stories'[id].status = "published")
                  => stories'[id].publishedAt = now
            /\ (stories[id].publishedAt = NoDate /\ stories'[id].publishedAt # NoDate)
                  => stories'[id].status = "published"
       /\ Len(stories') > Len(stories)
            => LET doc == stories'[Len(stories')] IN
               IF doc.status = "published" THEN doc.publishedAt = now
               ELSE doc.publishedAt = NoDate]_vars

\* a story published at the first instant was saved as published again later,
\* next to one that was moved away from published and keeps its publishedAt
C29_Witness ==
    /\ Len(stories) = 2
    /\ stories[1].status = "published" /\ stories[1].publishedAt = 0
    /\ stories[1].updatedAt = MaxNow
    /\ stories[2].status = "archived" /\ stories[2].publishedAt = 0

---------------------------------------------------------------------------
(* C30: every 'disconnected' event schedules exactly one call of
   connectDBAtlas, however many connects happened before.  Violated: each
   successful connectDBAtlas registers one more 'disconnected' listener. *)
C30_OneReconnectPerDisconnect ==
    [][Disconnected => connection'.timers = connection.timers + 1]_vars

---------------------------------------------------------------------------
\* the GET routes of the router declared with exactly this literal segment
Declared(router, segment) ==
    {k \in DOMAIN Routes(router) :
        Routes(router)[k].method = "GET" /\ Routes(router)[k].path = <<segment>>}

(* C26: a GET request whose path is a single segment that the router declares
   as a literal GET route is dispatched to that route.  Violated: GET /:id or
   GET /:slug is registered before the literal route and matches first. *)
C26_LiteralRoutesReached ==
    (/\ dispatched.method = "GET"
     /\ Len(dispatched.path) = 1
     /\ Declared(dispatched.router, dispatched.path[1]) # {})
        => dispatched.route \in Declared(dispatched.router, dispatched.path[1])

====
